---- MODULE Spec2Model ----
(***************************************************************************)
(* HomePage.jsx: the hero carousel (useCarousel), the initial product      *)
(* fetch, the feed paginator (loadMoreFeedProducts) and the infinite       *)
(* scroll observer, as one state machine.                                  *)
(*                                                                         *)
(* React state is modelled as React keeps it: the committed value of each  *)
(* useState hook is what the last render handed to the closures (event     *)
(* handlers, effects, the observer callback) and to the markup; a setState *)
(* call made from a timer, a promise continuation, an effect or an         *)
(* observer callback is queued and becomes visible at the next Render.     *)
(* The pending records hold the hook values with every queued update       *)
(* applied in order (updater functions are applied to the queued value).   *)
(* A setState made in a click handler is rendered synchronously before the *)
(* handler's event ends, so the click actions include that render.         *)
(*                                                                         *)
(* A render commits the hook values; the useEffect bodies whose            *)
(* dependencies changed run in a later step (RunEffects), at the latest    *)
(* before the next render.  Between the two steps the interval and the     *)
(* observer created by the previous effects are still live, with the       *)
(* values of the render that created them (effectDeps).  The render of a   *)
(* click runs its effects before the click event ends.  Whether that       *)
(* render also takes the updates queued by timers and promises depends on  *)
(* the React build (unifiedSyncLane); both builds are modelled.            *)
(***************************************************************************)
EXTENDS Integers, Sequences, FiniteSets

VARIABLES
    collectionSize,  \* number of products the product service holds (pids 1..M)
    unifiedSyncLane, \* the React build: the synchronous render of a click also
                     \*   renders the updates queued by timers and promises
                     \*   (TRUE), or only the click's own update (FALSE)
    products,        \* useState([])       line 85, committed
    loading,         \* useState(true)     line 86, committed
    error,           \* useState(null)     line 87, committed
    currentIndex,    \* useState(0)        line 36, committed
    isTransitioning, \* useState(false)    line 37, committed
    pendingHero,     \* the five hooks above with the queued updates applied
    productsFetch,   \* the getAllProducts() call of fetchProducts (line 106)
    timer,           \* totalSlides captured by the live setInterval, 0 = none
    timeouts,        \* the scheduled 300 ms callbacks, in firing order
    userNav,         \* history: an accepted goToNext/goToPrev/goToSlide happened
    autoTicks,       \* history: interval ticks so far (while userNav is FALSE)
    lastNav,         \* history: outcome of the most recent navigation request
    feedProducts,    \* useState([])       line 91, committed
    feedPage,        \* useState(0)        line 92, committed
    feedLoading,     \* useState(false)    line 93, committed
    feedHasMore,     \* useState(true)     line 94, committed
    pendingFeed,     \* the four feed hooks with the queued updates applied
    feedFetches,     \* getAllProducts() calls of loadMoreFeedProducts in flight
    visible,         \* the sentinel (observerTarget) intersects the viewport
    entries,         \* entries queued for the registered IntersectionObserver
    feedCalls,       \* history: completed successful feed fetches
    raced,           \* history: a feed fetch started before the previous one
                     \*          had completed and been committed
    lastFeedCall,    \* history: outcome of the most recent loadMoreFeedProducts
    failedPage,      \* history: page of the most recent failed feed fetch
    retryBarrier,    \* history: a feed fetch failed with the sentinel visible
                     \*          and its visibility has not changed since
    withImage,       \* pids of the products that have a screenshotPreviewUrl
    auroraColors,    \* useState([...])    line 88, committed
    pendingColors,   \* auroraColors with the queued updates applied
    extractions,     \* extractColorsFromImage() calls in flight (line 175),
                     \*   the pids of their images, kept sorted: any of
                     \*   them may complete next
    mounted,         \* HomePage is mounted
    effectDeps       \* the dependency values the effects last ran with, which
                     \*   are the values their closures hold

heroVars == <<products, loading, error, currentIndex, isTransitioning,
              pendingHero, productsFetch, timer, timeouts, userNav,
              autoTicks, lastNav>>
feedVars == <<feedProducts, feedPage, feedLoading, feedHasMore, pendingFeed,
              feedFetches, visible, entries, feedCalls, raced, lastFeedCall,
              failedPage, retryBarrier>>
auroraVars == <<withImage, auroraColors, pendingColors, extractions>>
vars == <<collectionSize, unifiedSyncLane, heroVars, feedVars, auroraVars, mounted, effectDeps>>

----------------------------------------------------------------------------
(* Bounds of the model.                                                    *)

\* largest product collection of the feed specifications
MaxProducts == 25
\* largest product collection of the carousel specification
MaxHeroProducts == 9
\* scheduled 300 ms callbacks outstanding at once
MaxTimeouts == 2
\* interval ticks counted while no user navigation has happened
MaxTicks == 6
\* feed fetches in flight at once
MaxInFlight == 2
\* IntersectionObserver entries queued at once
MaxEntries == 2
\* feed fetches started over a session
MaxFeedCalls == 3
\* colour extractions in flight at once
MaxExtractions == 2
\* largest product collection of the palette specification
MaxPaletteProducts == 2
\* largest product collection of the teardown specification
MaxTeardownProducts == 2

----------------------------------------------------------------------------
(* Program constants.                                                      *)

\* const pageSize = 12
pageSize == 12
\* sortedData.slice(0, 8)
HotCount == 8
\* Math.min(products.length, 5)
MaxSlides == 5
\* the value of x % 0 and of NaN % x in JavaScript; no slide index equals it
NaN == -1000
\* the palette ['#c9bfe8', '#b8afe8', '#9b8dd4'] auroraColors starts with
Fallback == 0

Min(a, b) == IF a <= b THEN a ELSE b

----------------------------------------------------------------------------
(* The product service and the array operations of the two fetch paths.    *)

\* getAllProducts(): the collection in one of the orders the service may
\* answer in (ascending, descending, or ascending rotated by one)
ServiceOrders(M) ==
    { [i \in 1..M |-> i],
      [i \in 1..M |-> M + 1 - i],
      [i \in 1..M |-> IF i = M THEN 1 ELSE i + 1] }

\* x put into the descending sequence s, before the first pid not above it
RECURSIVE InsertDesc(_, _)
InsertDesc(x, s) ==
    IF s = <<>> THEN <<x>>
    ELSE IF x >= Head(s) THEN <<x>> \o s
    ELSE <<Head(s)>> \o InsertDesc(x, Tail(s))

\* data.sort((a, b) => b.pid - a.pid): the products of data by descending pid
RECURSIVE SortDesc(_)
SortDesc(data) ==
    IF data = <<>> THEN <<>>
    ELSE InsertDesc(Head(data), SortDesc(Tail(data)))

\* Array.prototype.slice(from, to) for 0 <= from <= to
Slice(s, from, to) == SubSeq(s, from + 1, Min(to, Len(s)))

\* a % b of JavaScript on integers and NaN: NaN when a is NaN or b is 0,
\* otherwise the remainder with the sign of a
JsMod(a, b) ==
    IF a = NaN \/ b = NaN \/ b = 0 THEN NaN
    ELSE IF a >= 0 THEN a % b ELSE 0 - ((0 - a) % b)

\* a + b of JavaScript on integers and NaN
JsAdd(a, b) == IF a = NaN \/ b = NaN THEN NaN ELSE a + b

\* a === b of JavaScript on integers and NaN (NaN equals nothing)
StrictEquals(a, b) == a # NaN /\ b # NaN /\ a = b

----------------------------------------------------------------------------
(* useCarousel                                                             *)

\* NextIndex with a fault: the updater forgets to wrap
NextIndexNoWrap(prev, totalSlides) == JsAdd(prev, 1)

\* (prev) => (prev + 1) % totalSlides
NextIndex(prev, totalSlides) == JsMod(JsAdd(prev, 1), totalSlides)

\* (prev) => (prev - 1 + totalSlides) % totalSlides
PrevIndex(prev, totalSlides) ==
    JsMod(JsAdd(JsAdd(prev, -1), totalSlides), totalSlides)

\* const heroSlides = Math.min(products.length, 5)
SlideCount(prods) == Min(Len(prods), MaxSlides)

\* totalSlides of the closures of the last render
heroSlides == SlideCount(products)

\* the auto-advance effect: no interval when totalSlides <= 1, otherwise an
\* interval whose callback captures totalSlides
AutoAdvanceEffect(totalSlides) == IF totalSlides <= 1 THEN 0 ELSE totalSlides

\* NavGuard with a fault: the handler has no guard
NavGuardMissing(transitioning) == FALSE

\* if (isTransitioning) return;
NavGuard(transitioning) == transitioning

\* if (isTransitioning || index === currentIndex) return;
SlideGuard(transitioning, index, current) ==
    transitioning \/ StrictEquals(index, current)

\* the index a scheduled callback t computes from the queued index prev
RunTimeout(t, prev) ==
    CASE t.kind = "next" -> NextIndex(prev, t.arg)
      [] t.kind = "prev" -> PrevIndex(prev, t.arg)
      [] t.kind = "slide" -> t.arg

----------------------------------------------------------------------------
(* Rendering                                                               *)

\* the committed hook values as records, for comparison with the queues
heroState ==
    [products |-> products, loading |-> loading, error |-> error,
     currentIndex |-> currentIndex, isTransitioning |-> isTransitioning]
feedState ==
    [feedProducts |-> feedProducts, feedPage |-> feedPage,
     feedLoading |-> feedLoading, feedHasMore |-> feedHasMore]

\* the dependencies [loadMoreFeedProducts, feedHasMore, feedLoading] of the
\* observer effect; loadMoreFeedProducts changes identity with
\* [feedPage, feedLoading, feedHasMore]
ObserverDeps(f) == <<f.feedPage, f.feedLoading, f.feedHasMore>>

\* HasPreview with a fault: the preview URL is not tested
HasPreviewAnyProduct(prods, index) ==
    /\ Len(prods) > 0
    /\ index \in 0..(Len(prods) - 1)

\* products.length > 0 && products[heroIndex]?.screenshotPreviewUrl
\* (products[NaN] is undefined)
HasPreview(prods, index) ==
    /\ Len(prods) > 0
    /\ index \in 0..(Len(prods) - 1)
    /\ prods[index + 1] \in withImage

\* enhanceColorsForAurora(extractColorsFromImage(url)) for the preview image
\* of product pid: the palette derived from that image, named by the pid
PaletteOf(pid) == pid

\* the dependency values of the three effects for hook values ph (hero) and
\* pf (feed): [totalSlides, interval], [loadMoreFeedProducts, feedHasMore,
\* feedLoading] and [heroIndex, products]
CurrentDeps(ph, pf) ==
    [totalSlides |-> SlideCount(ph.products),
     observer |-> ObserverDeps(pf),
     aurora |-> <<ph.currentIndex, ph.products>>]

\* what the effects own: the interval, the scheduled callbacks (for their
\* order with the interval's ticks), the observer's queue, the extractions
\* and the dependency values of the last run
effectState ==
    [timer |-> timer, timeouts |-> timeouts, entries |-> entries,
     extractions |-> extractions, deps |-> effectDeps]

\* The Aurora effect (deps [heroIndex, products]) for hook values ph when it
\* last ran with dependencies last: updateAuroraColors() up to its await
AuroraEffect(exts, last, ph) ==
    IF /\ <<ph.currentIndex, ph.products>> # last
       /\ HasPreview(ph.products, ph.currentIndex)
    THEN InsertDesc(ph.products[ph.currentIndex + 1], exts)
    ELSE exts

\* the scheduled callbacks once the effects have run: when the auto-advance
\* effect creates a new interval, every callback already scheduled (300 ms)
\* runs before its first tick (5000 ms)
AfterCommit(ts, newInterval) ==
    IF newInterval
    THEN [i \in DOMAIN ts |-> [ts[i] EXCEPT !.beforeTick = TRUE]]
    ELSE ts

\* The useEffect bodies of the render with hook values ph and pf, run on
\* effect state e; an effect runs when its dependencies differ from e.deps:
\*  - the auto-advance effect (deps [totalSlides, interval]) clears its
\*    interval and creates the one for the new totalSlides;
\*  - the observer effect unobserves the sentinel and observes it with a new
\*    IntersectionObserver, which is always notified once with the sentinel's
\*    current intersection state;
\*  - the Aurora effect starts an extraction for the displayed product.
FlushEffects(e, ph, pf) ==
    LET d == CurrentDeps(ph, pf)
        newInterval == d.totalSlides # e.deps.totalSlides
    IN  [timer |-> IF newInterval
                   THEN AutoAdvanceEffect(d.totalSlides)
                   ELSE e.timer,
         timeouts |-> AfterCommit(e.timeouts, newInterval),
         entries |-> IF d.observer # e.deps.observer
                     THEN <<visible>>
                     ELSE e.entries,
         extractions |-> AuroraEffect(e.extractions, e.deps.aurora, ph),
         deps |-> d]

\* the effect state becomes e
SetEffects(e) ==
    /\ Len(e.extractions) <= MaxExtractions
    /\ timer' = e.timer
    /\ timeouts' = e.timeouts
    /\ entries' = e.entries
    /\ extractions' = e.extractions
    /\ effectDeps' = e.deps

\* React commits the hook values ph (hero), pf (feed) and pc (palette)
Commit(ph, pf, pc) ==
    /\ products' = ph.products
    /\ loading' = ph.loading
    /\ error' = ph.error
    /\ currentIndex' = ph.currentIndex
    /\ isTransitioning' = ph.isTransitioning
    /\ feedProducts' = pf.feedProducts
    /\ feedPage' = pf.feedPage
    /\ feedLoading' = pf.feedLoading
    /\ feedHasMore' = pf.feedHasMore
    /\ auroraColors' = pc

\* One synchronous render on effect state e (the render of a click): the
\* effects still pending from the previous commit run first, then the hook
\* values ph, pf and pc are committed and their effects run
CommitRender(e, ph, pf, pc) ==
    /\ Commit(ph, pf, pc)
    /\ SetEffects(FlushEffects(FlushEffects(e, heroState, feedState), ph, pf))

\* React renders the queued updates (scheduled as its own task after a
\* setState made outside an event handler): the effects still pending from
\* the previous commit run first, then the queued values are committed;
\* the effects of this commit are a later step (RunEffects)
Render ==
    /\ mounted
    /\ \/ pendingHero # heroState
       \/ pendingFeed # feedState
       \/ pendingColors # auroraColors
    /\ Commit(pendingHero, pendingFeed, pendingColors)
    /\ SetEffects(FlushEffects(effectState, heroState, feedState))
    /\ UNCHANGED <<collectionSize, unifiedSyncLane, withImage, pendingColors, mounted, pendingHero, productsFetch,
                   userNav, autoTicks, lastNav, pendingFeed, feedFetches,
                   visible, feedCalls, raced, lastFeedCall, failedPage,
                   retryBarrier>>

\* the useEffect bodies of the last commit run (their own task after the
\* commit): until then the previous interval and observer stay live
RunEffects ==
    /\ mounted
    /\ effectDeps # CurrentDeps(heroState, feedState)
    /\ SetEffects(FlushEffects(effectState, heroState, feedState))
    /\ UNCHANGED <<collectionSize, unifiedSyncLane, products, loading, error, currentIndex,
                   isTransitioning, pendingHero, productsFetch, userNav,
                   autoTicks, lastNav, feedProducts, feedPage, feedLoading,
                   feedHasMore, pendingFeed, feedFetches, visible, feedCalls,
                   raced, lastFeedCall, failedPage, retryBarrier, withImage,
                   auroraColors, pendingColors, mounted>>

----------------------------------------------------------------------------
(* Initial product fetch (fetchProducts)                                   *)

\* try branch after the await: setProducts(sortedData.slice(0, 8));
\* setError(null); finally setLoading(false)
OnProductsLoaded(ph, data) ==
    [ph EXCEPT !.products = Slice(SortDesc(data), 0, HotCount),
               !.error = "null",
               !.loading = FALSE]

\* OnProductsFailed with a fault: setLoading(false) is not in a finally
OnProductsFailedKeepsLoading(ph) == [ph EXCEPT !.error = "Failed to load art."]

\* catch branch: setError('Failed to load art.'); finally setLoading(false)
OnProductsFailed(ph) ==
    [ph EXCEPT !.error = "Failed to load art.", !.loading = FALSE]

ProductsFetchSucceeds ==
    /\ productsFetch = "inflight"
    /\ \E data \in ServiceOrders(collectionSize) :
           pendingHero' = OnProductsLoaded(pendingHero, data)
    /\ productsFetch' = "done"
    /\ UNCHANGED <<collectionSize, unifiedSyncLane, auroraVars, mounted, effectDeps, products, loading, error, currentIndex,
                   isTransitioning, timer, timeouts, userNav, autoTicks,
                   lastNav, feedVars>>

ProductsFetchFails ==
    /\ productsFetch = "inflight"
    /\ pendingHero' = OnProductsFailed(pendingHero)
    /\ productsFetch' = "failed"
    /\ UNCHANGED <<collectionSize, unifiedSyncLane, auroraVars, mounted, effectDeps, products, loading, error, currentIndex,
                   isTransitioning, timer, timeouts, userNav, autoTicks,
                   lastNav, feedVars>>

----------------------------------------------------------------------------
(* Carousel: interval, scheduled callbacks, navigation requests            *)

\* A tick of the setInterval of the auto-advance effect:
\* setIsTransitioning(true); setTimeout(..., 300).  The interval (5000 ms)
\* is longer than the timeout (300 ms), so the callback of the previous
\* tick, and every callback scheduled before the interval was created, has
\* run before the next tick (beforeTick).
Tick ==
    /\ timer > 1
    /\ \A i \in DOMAIN timeouts : ~timeouts[i].beforeTick
    /\ Len(timeouts) < MaxTimeouts
    /\ userNav \/ autoTicks < MaxTicks
    /\ pendingHero' = [pendingHero EXCEPT !.isTransitioning = TRUE]
    /\ timeouts' = Append(timeouts, [kind |-> "next", arg |-> timer, beforeTick |-> TRUE])
    /\ autoTicks' = IF userNav THEN 0 ELSE autoTicks + 1
    /\ UNCHANGED <<collectionSize, unifiedSyncLane, auroraVars, mounted, effectDeps, products, loading, error, currentIndex,
                   isTransitioning, productsFetch, timer, userNav, lastNav,
                   feedVars>>

\* The oldest scheduled callback runs (all delays are 300 ms, so callbacks
\* run in the order they were scheduled):
\* setCurrentIndex(updater or value); setIsTransitioning(false)
TimeoutFires ==
    /\ timeouts # <<>>
    /\ pendingHero' =
           [pendingHero EXCEPT !.currentIndex = RunTimeout(Head(timeouts), @),
                               !.isTransitioning = FALSE]
    /\ timeouts' = Tail(timeouts)
    /\ UNCHANGED <<collectionSize, unifiedSyncLane, auroraVars, mounted, effectDeps, products, loading, error, currentIndex,
                   isTransitioning, productsFetch, timer, userNav, autoTicks,
                   lastNav, feedVars>>

\* a navigation request that returns at its guard
NavRejected ==
    /\ lastNav' = "rejected"
    /\ UNCHANGED <<collectionSize, unifiedSyncLane, auroraVars, mounted, effectDeps, products, loading, error, currentIndex,
                   isTransitioning, pendingHero, productsFetch, timer,
                   timeouts, userNav, autoTicks, feedVars>>

\* a navigation request that passes its guard, in a click handler:
\* setIsTransitioning(true); setTimeout(t, 300); React renders before the
\* click event ends, with every queued update or with the click's alone
NavAccepted(t) ==
    /\ Len(timeouts) < MaxTimeouts
    /\ pendingHero' = [pendingHero EXCEPT !.isTransitioning = TRUE]
    /\ IF unifiedSyncLane
       THEN CommitRender([effectState EXCEPT !.timeouts = Append(timeouts, t)],
                         [pendingHero EXCEPT !.isTransitioning = TRUE],
                         pendingFeed, pendingColors)
       ELSE CommitRender([effectState EXCEPT !.timeouts = Append(timeouts, t)],
                         [heroState EXCEPT !.isTransitioning = TRUE],
                         feedState, auroraColors)
    /\ userNav' = TRUE
    /\ autoTicks' = 0
    /\ lastNav' = "accepted"
    /\ UNCHANGED <<collectionSize, unifiedSyncLane, withImage, pendingColors, mounted, productsFetch, pendingFeed, feedFetches,
                   visible, feedCalls, raced, lastFeedCall, failedPage,
                   retryBarrier>>

GoToNext ==
    /\ mounted
    /\ IF NavGuard(isTransitioning)
       THEN NavRejected
       ELSE NavAccepted([kind |-> "next", arg |-> heroSlides, beforeTick |-> FALSE])

GoToPrev ==
    /\ mounted
    /\ IF NavGuard(isTransitioning)
       THEN NavRejected
       ELSE NavAccepted([kind |-> "prev", arg |-> heroSlides, beforeTick |-> FALSE])

\* the indicator buttons exist when heroSlides > 1, one per slide
GoToSlide(index) ==
    /\ mounted
    /\ heroSlides > 1
    /\ index \in 0..(heroSlides - 1)
    /\ IF SlideGuard(isTransitioning, index, currentIndex)
       THEN NavRejected
       ELSE NavAccepted([kind |-> "slide", arg |-> index, beforeTick |-> FALSE])

----------------------------------------------------------------------------
(* Feed paginator (loadMoreFeedProducts) and the infinite scroll observer  *)

\* if (feedLoading || !feedHasMore) return;
FeedGuard(isLoading, hasMore) == isLoading \/ ~hasMore

\* OnFeedPage with a fault: setFeedProducts(pageData) replaces the list
OnFeedPageReplaces(pf, page, sortedData) ==
    LET startIndex == page * pageSize
        endIndex == startIndex + pageSize
        pageData == Slice(sortedData, startIndex, endIndex)
    IN  IF Len(pageData) = 0
        THEN [pf EXCEPT !.feedHasMore = FALSE, !.feedLoading = FALSE]
        ELSE [pf EXCEPT !.feedProducts = pageData,
                        !.feedPage = @ + 1,
                        !.feedHasMore = IF endIndex >= Len(sortedData)
                                        THEN FALSE ELSE @,
                        !.feedLoading = FALSE]

\* the try branch after the await, for the call that captured feedPage = page
OnFeedPage(pf, page, sortedData) ==
    LET startIndex == page * pageSize
        endIndex == startIndex + pageSize
        pageData == Slice(sortedData, startIndex, endIndex)
    IN  IF Len(pageData) = 0
        THEN [pf EXCEPT !.feedHasMore = FALSE, !.feedLoading = FALSE]
        ELSE [pf EXCEPT !.feedProducts = @ \o pageData,
                        !.feedPage = @ + 1,
                        !.feedHasMore = IF endIndex >= Len(sortedData)
                                        THEN FALSE ELSE @,
                        !.feedLoading = FALSE]

\* the catch branch logs; finally setFeedLoading(false)
OnFeedFailure(pf) == [pf EXCEPT !.feedLoading = FALSE]

\* loadMoreFeedProducts() of the render whose values are c (page, loading,
\* hasMore), up to its await: the guard, setFeedLoading(true) and the
\* request, which captures feedPage
LoadMoreFeedProducts(c) ==
    IF FeedGuard(c[2], c[3])
    THEN /\ lastFeedCall' = "skipped"
         /\ UNCHANGED <<pendingFeed, feedFetches, raced>>
    ELSE /\ Len(feedFetches) < MaxInFlight
         /\ feedCalls + Len(feedFetches) < MaxFeedCalls
         /\ pendingFeed' = [pendingFeed EXCEPT !.feedLoading = TRUE]
         /\ feedFetches' = Append(feedFetches, [page |-> c[1]])
         /\ raced' = (raced \/ feedFetches # <<>> \/ pendingFeed # feedState)
         /\ lastFeedCall' = "started"

\* the callback of the registered IntersectionObserver runs with the queued
\* entries and the values of the render whose effect created the observer:
\* if (entries[0].isIntersecting && feedHasMore && !feedLoading)
\*     loadMoreFeedProducts()
ObserverCallback ==
    /\ entries # <<>>
    /\ entries' = <<>>
    /\ IF entries[1] /\ effectDeps.observer[3] /\ ~effectDeps.observer[2]
       THEN LoadMoreFeedProducts(effectDeps.observer)
       ELSE UNCHANGED <<pendingFeed, feedFetches, raced, lastFeedCall>>
    /\ UNCHANGED <<collectionSize, unifiedSyncLane, auroraVars, mounted, effectDeps, heroVars, feedProducts, feedPage,
                   feedLoading, feedHasMore, visible, feedCalls, failedPage,
                   retryBarrier>>

\* a holder of the callback calls it while a fetch is in flight or after
\* exhaustion
LoadMoreWhileBusy ==
    /\ mounted
    /\ feedLoading \/ ~feedHasMore
    /\ LoadMoreFeedProducts(ObserverDeps(feedState))
    /\ UNCHANGED <<collectionSize, unifiedSyncLane, auroraVars, mounted, effectDeps, heroVars, feedProducts, feedPage,
                   feedLoading, feedHasMore, visible, entries, feedCalls,
                   failedPage, retryBarrier>>

\* the user scrolls the sentinel into or out of the viewport; the observer
\* queues an entry with the new intersection state
Scroll ==
    /\ mounted
    /\ Len(entries) < MaxEntries
    /\ visible' = ~visible
    /\ entries' = Append(entries, ~visible)
    /\ retryBarrier' = FALSE
    /\ UNCHANGED <<collectionSize, unifiedSyncLane, auroraVars, mounted, effectDeps, heroVars, feedProducts, feedPage,
                   feedLoading, feedHasMore, pendingFeed, feedFetches,
                   feedCalls, raced, lastFeedCall, failedPage>>

\* s without its i-th element
Remove(s, i) == SubSeq(s, 1, i - 1) \o SubSeq(s, i + 1, Len(s))

\* the i-th request in flight is answered with the collection
FeedFetchSucceeds(i) ==
    /\ i \in DOMAIN feedFetches
    /\ \E data \in ServiceOrders(collectionSize) :
           pendingFeed' = OnFeedPage(pendingFeed, feedFetches[i].page, SortDesc(data))
    /\ feedFetches' = Remove(feedFetches, i)
    /\ feedCalls' = feedCalls + 1
    /\ lastFeedCall' = "succeeded"
    /\ failedPage' = {}
    /\ UNCHANGED <<collectionSize, unifiedSyncLane, auroraVars, mounted, effectDeps, heroVars, feedProducts, feedPage,
                   feedLoading, feedHasMore, visible, entries, raced,
                   retryBarrier>>

\* the i-th request in flight fails (getAllProducts rejects)
FeedFetchFails(i) ==
    /\ i \in DOMAIN feedFetches
    /\ pendingFeed' = OnFeedFailure(pendingFeed)
    /\ feedFetches' = Remove(feedFetches, i)
    /\ lastFeedCall' = "failed"
    /\ failedPage' = {feedFetches[i].page}
    /\ retryBarrier' = (visible /\ entries = <<>> /\ Len(feedFetches) = 1)
    /\ UNCHANGED <<collectionSize, unifiedSyncLane, auroraVars, mounted, effectDeps, heroVars, feedProducts, feedPage,
                   feedLoading, feedHasMore, visible, entries, feedCalls,
                   raced>>

----------------------------------------------------------------------------
(* Aurora palette                                                          *)

\* OnColorsExtracted with a fault: a result is applied only while its image
\* is the one displayed
OnColorsExtractedIfCurrent(pc, image) ==
    IF HasPreview(products, currentIndex) /\ products[currentIndex + 1] = image
    THEN PaletteOf(image)
    ELSE pc

\* the continuation of updateAuroraColors for the extraction of image:
\* setAuroraColors(enhancedColors), whatever the slide now displayed
OnColorsExtracted(pc, image) == PaletteOf(image)

\* the i-th extraction in flight completes
ExtractionCompletes(i) ==
    /\ i \in DOMAIN extractions
    /\ pendingColors' = OnColorsExtracted(pendingColors, extractions[i])
    /\ extractions' = Remove(extractions, i)
    /\ UNCHANGED <<collectionSize, unifiedSyncLane, heroVars, feedVars, withImage,
                   auroraColors, mounted, effectDeps>>

----------------------------------------------------------------------------
(* Teardown                                                                *)

\* Unmount with a fault: the auto-advance effect returns no cleanup
UnmountKeepsTimer ==
    /\ mounted
    /\ mounted' = FALSE
    /\ SetEffects([FlushEffects(effectState, heroState, feedState)
                       EXCEPT !.entries = <<>>])
    /\ UNCHANGED <<collectionSize, unifiedSyncLane, products, loading, error,
                   currentIndex, isTransitioning, pendingHero, productsFetch,
                   userNav, autoTicks, lastNav, feedProducts, feedPage,
                   feedLoading, feedHasMore, pendingFeed, feedFetches,
                   visible, feedCalls, raced, lastFeedCall, failedPage,
                   retryBarrier, withImage, auroraColors, pendingColors>>

\* HomePage unmounts: the effects still pending from the last commit run,
\* then the effect cleanups: clearInterval(timer) and
\* observer.unobserve(observerTarget.current), after which the observer
\* delivers nothing for the sentinel.  Scheduled 300 ms callbacks, requests
\* and extractions in flight are not cancelled.
Unmount ==
    /\ mounted
    /\ mounted' = FALSE
    /\ SetEffects([FlushEffects(effectState, heroState, feedState)
                       EXCEPT !.timer = 0, !.entries = <<>>])
    /\ UNCHANGED <<collectionSize, unifiedSyncLane, products, loading, error,
                   currentIndex, isTransitioning, pendingHero, productsFetch,
                   userNav, autoTicks, lastNav, feedProducts, feedPage,
                   feedLoading, feedHasMore, pendingFeed, feedFetches,
                   visible, feedCalls, raced, lastFeedCall, failedPage,
                   retryBarrier, withImage, auroraColors, pendingColors>>

----------------------------------------------------------------------------
(* Specifications                                                          *)

\* The state after the first render and its effects, for a collection whose
\* size is in sizes: the auto-advance effect returned at totalSlides = 0,
\* fetchProducts awaits getAllProducts, the observer observes the sentinel
\* (its first notification is queued), and the initial feed load effect has
\* called loadMoreFeedProducts (setFeedLoading(true) queued, page 0 requested).
InitWith(sizes) ==
    /\ collectionSize \in sizes
    /\ unifiedSyncLane \in BOOLEAN
    /\ products = <<>>
    /\ loading = TRUE
    /\ error = "null"
    /\ currentIndex = 0
    /\ isTransitioning = FALSE
    /\ pendingHero = [products |-> <<>>, loading |-> TRUE, error |-> "null",
                      currentIndex |-> 0, isTransitioning |-> FALSE]
    /\ productsFetch = "inflight"
    /\ timer = AutoAdvanceEffect(0)
    /\ timeouts = <<>>
    /\ userNav = FALSE
    /\ autoTicks = 0
    /\ lastNav = "none"
    /\ feedProducts = <<>>
    /\ feedPage = 0
    /\ feedLoading = FALSE
    /\ feedHasMore = TRUE
    /\ pendingFeed = [feedProducts |-> <<>>, feedPage |-> 0,
                      feedLoading |-> TRUE, feedHasMore |-> TRUE]
    /\ feedFetches = <<[page |-> 0]>>
    /\ visible \in BOOLEAN
    /\ entries = <<visible>>
    /\ feedCalls = 0
    /\ raced = FALSE
    /\ lastFeedCall = "started"
    /\ failedPage = {}
    /\ retryBarrier = FALSE
    /\ auroraColors = Fallback
    /\ pendingColors = Fallback
    /\ extractions = <<>>
    /\ mounted = TRUE
    /\ effectDeps = CurrentDeps(heroState, feedState)

\* the collection sizes of the feed: none, one, around one page, the 20 of
\* the two-page example, two full pages, and the largest
FeedSizes ==
    {0, 1, pageSize - 1, pageSize, pageSize + 1, 20, 2 * pageSize, MaxProducts}

\* the feed and the carousel are taken with products that have no preview
\* image, the palette with any choice of products that have one
Init == InitWith(FeedSizes) /\ withImage = {}
InitCarousel == InitWith(0..MaxHeroProducts) /\ withImage = {}
InitPalette ==
    /\ InitWith(0..MaxPaletteProducts)
    /\ withImage \in SUBSET (1..collectionSize)
    /\ visible
\* no click occurs in the feed and teardown specifications, so one build
\* stands for both
InitFeed == Init /\ unifiedSyncLane = TRUE
InitTeardown ==
    /\ InitWith({0, MaxTeardownProducts})
    /\ withImage = {}
    /\ unifiedSyncLane = TRUE
\* the sentinel is in the viewport at mount
InitFeedLive == InitFeed /\ visible

NextCarousel ==
    \/ Render
    \/ RunEffects
    \/ ProductsFetchSucceeds
    \/ ProductsFetchFails
    \/ GoToNext
    \/ GoToPrev
    \/ \E index \in 0..(MaxSlides - 1) : GoToSlide(index)
    \/ Tick
    \/ TimeoutFires

NextFeed ==
    \/ Render
    \/ RunEffects
    \/ ObserverCallback
    \/ LoadMoreWhileBusy
    \/ Scroll
    \/ \E i \in 1..MaxInFlight : FeedFetchSucceeds(i)
    \/ \E i \in 1..MaxInFlight : FeedFetchFails(i)

Next == NextCarousel \/ NextFeed

\* the feed while every request succeeds
NextFeedOk ==
    \/ Render
    \/ RunEffects
    \/ ObserverCallback
    \/ LoadMoreWhileBusy
    \/ Scroll
    \/ \E i \in 1..MaxInFlight : FeedFetchSucceeds(i)

\* the carousel, advanced by its interval and the next button, with the
\* palette deriver
NextPalette ==
    \/ Render
    \/ RunEffects
    \/ ProductsFetchSucceeds
    \/ ProductsFetchFails
    \/ GoToNext
    \/ Tick
    \/ TimeoutFires
    \/ \E i \in 1..MaxExtractions : ExtractionCompletes(i)

\* the page left to its timers, its requests and the scrolling, until and
\* after its teardown
NextTeardown ==
    \/ ProductsFetchSucceeds
    \/ ProductsFetchFails
    \/ Tick
    \/ TimeoutFires
    \/ Render
    \/ RunEffects
    \/ ObserverCallback
    \/ Scroll
    \/ \E i \in 1..MaxInFlight : FeedFetchSucceeds(i)
    \/ \E i \in 1..MaxInFlight : FeedFetchFails(i)
    \/ Unmount

\* the feed while every request succeeds and the sentinel stays in the
\* viewport
NextFeedLive ==
    \/ Render
    \/ RunEffects
    \/ ObserverCallback
    \/ \E i \in 1..MaxInFlight : FeedFetchSucceeds(i)

\* the whole page
Spec == Init /\ [][Next]_vars
\* the feed with the sentinel staying visible and every request succeeding;
\* renders, observer callbacks and responses are not postponed for ever
SpecFeedLive ==
    /\ InitFeedLive
    /\ [][NextFeedLive]_vars
    /\ WF_vars(Render)
    /\ WF_vars(RunEffects)
    /\ WF_vars(ObserverCallback)
    /\ \A i \in 1..MaxInFlight : WF_vars(FeedFetchSucceeds(i))
\* the carousel, the initial product fetch and the Aurora effect
SpecPalette == InitPalette /\ [][NextPalette]_vars
\* the page of a small collection without navigation requests, with its
\* unmount
SpecTeardown == InitTeardown /\ [][NextTeardown]_vars
\* the feed paginator and the scroll observer, every request succeeding
SpecFeedOk == InitFeed /\ [][NextFeedOk]_vars
\* the carousel and the initial product fetch
SpecCarousel == InitCarousel /\ [][NextCarousel]_vars
\* the feed paginator and the scroll observer
SpecFeed == InitFeed /\ [][NextFeed]_vars

----------------------------------------------------------------------------
(* Claims                                                                  *)

\* C1: in every reachable state the carousel index is a valid slide
\* position: below the slide count when a slide exists, 0 when none does.
IndexIsValidSlide ==
    IF heroSlides = 0
    THEN currentIndex = 0
    ELSE currentIndex \in 0..(heroSlides - 1)

\* C2: at most one scheduled index update is pending at any time.
TransitionsNeverOverlap == Len(timeouts) <= 1

\* a navigation request made while the transitioning flag is true, or a
\* goToSlide(i) with i the current index
RejectedRequest ==
    \/ isTransitioning /\ GoToNext
    \/ isTransitioning /\ GoToPrev
    \/ \E index \in 0..(MaxSlides - 1) :
           (isTransitioning \/ index = currentIndex) /\ GoToSlide(index)

\* C3: a navigation request made while the transitioning flag is true, and a
\* goToSlide(i) with i the current index, leave the index and the flag (as
\* rendered and as queued) unchanged and schedule no index update.
RejectedNavChangesNothing ==
    [][RejectedRequest =>
           UNCHANGED <<currentIndex, isTransitioning, pendingHero, timeouts>>]_vars

\* C3 witness: the latest request was rejected during a transition
RejectedNavSeen ==
    /\ lastNav = "rejected"
    /\ isTransitioning
    /\ Len(timeouts) = 1

\* C9: with more than one slide and no user navigation, once the transitions
\* of N ticks have completed the index is N mod slideCount (in the queued
\* state at once, on screen once rendered).
AutoAdvanceIndex ==
    (~userNav /\ heroSlides > 1 /\ timeouts = <<>>) =>
        /\ pendingHero.currentIndex = autoTicks % heroSlides
        /\ pendingHero = heroState => currentIndex = autoTicks % heroSlides

\* C9 witness: five slides, six ticks completed and rendered, the index has
\* wrapped to 1
AutoAdvanceWrapped ==
    /\ ~userNav
    /\ heroSlides = 5
    /\ autoTicks = 6
    /\ timeouts = <<>>
    /\ pendingHero = heroState
    /\ currentIndex = 1

\* C10: with 0 or 1 slides there is no auto-advance timer and the index is 0.
NoAdvanceBelowTwoSlides ==
    heroSlides <= 1 => (timer = 0 /\ currentIndex = 0)

\* the first n products of the collection by descending pid (pids are
\* 1..collectionSize)
FirstSorted(n) == [i \in 1..n |-> collectionSize + 1 - i]

\* no product occurs twice in the sequence s
NoDuplicates(s) == \A i, j \in DOMAIN s : s[i] = s[j] => i = j

\* C4, for M >= 1: while every call started after the previous one completed
\* and was committed, after k successful calls the feed is the first
\* min(12k, M) sorted products and the page counter is k, and hasMore is
\* false once the feed holds all M products.
PaginationAsStated ==
    (collectionSize >= 1 /\ ~raced) =>
        /\ pendingFeed.feedProducts =
               FirstSorted(Min(pageSize * feedCalls, collectionSize))
        /\ pendingFeed.feedPage = feedCalls
        /\ (feedCalls >= 1 /\ Len(pendingFeed.feedProducts) = collectionSize)
               => ~pendingFeed.feedHasMore

\* C5: at most one feed fetch is in flight, and no page is applied twice, so
\* no product occurs twice in the feed list.
FeedFetchesExclusive ==
    /\ Len(feedFetches) <= 1
    /\ NoDuplicates(pendingFeed.feedProducts)

\* C6: while the rendered loading flag is true or the rendered hasMore flag
\* is false, a call of loadMoreFeedProducts sends no request and sets no
\* loading flag.
NoRequestWhileBusy ==
    [][(feedLoading \/ ~feedHasMore) =>
           /\ Len(feedFetches') <= Len(feedFetches)
           /\ lastFeedCall' = "started" => UNCHANGED lastFeedCall]_vars

\* C7: a failing feed fetch clears the loading flag and leaves the feed
\* list, the page counter and hasMore as they were, and a call of
\* loadMoreFeedProducts that follows the failure of the request for page p
\* (with no page loaded in between) requests page p again.
FailureLeavesFeedIntact ==
    /\ [][(\E i \in 1..MaxInFlight : FeedFetchFails(i)) =>
              /\ pendingFeed'.feedLoading = FALSE
              /\ pendingFeed'.feedProducts = pendingFeed.feedProducts
              /\ pendingFeed'.feedPage = pendingFeed.feedPage
              /\ pendingFeed'.feedHasMore = pendingFeed.feedHasMore
              /\ UNCHANGED <<feedProducts, feedPage, feedHasMore>>]_vars
    /\ [][(failedPage # {} /\ Len(feedFetches') > Len(feedFetches)) =>
              feedFetches'[Len(feedFetches')].page \in failedPage]_vars

\* C8: after a feed fetch failed with the sentinel visible (and no observer
\* notification pending), no feed fetch starts until the sentinel's
\* visibility changes.
NoAutomaticRetry ==
    [][retryBarrier => Len(feedFetches') <= Len(feedFetches)]_vars

\* s is an initial part of t
IsPrefix(s, t) == Len(s) <= Len(t) /\ SubSeq(t, 1, Len(s)) = s

\* C11: hasMore never returns to true, the page counter never decreases and
\* the feed list only grows at its end, in the queued and in the rendered
\* state.
FeedIsMonotonic ==
    [][/\ ~pendingFeed.feedHasMore => ~pendingFeed'.feedHasMore
       /\ pendingFeed'.feedPage >= pendingFeed.feedPage
       /\ IsPrefix(pendingFeed.feedProducts, pendingFeed'.feedProducts)
       /\ ~feedHasMore => ~feedHasMore'
       /\ feedPage' >= feedPage
       /\ IsPrefix(feedProducts, feedProducts')]_vars

\* C11 witness: two pages appended and exhaustion rendered after a failure
\* of the second page
GrownAndExhausted ==
    /\ feedPage = 2
    /\ Len(feedProducts) > pageSize
    /\ ~feedHasMore
    /\ feedCalls = 2
    /\ lastFeedCall = "succeeded"
    /\ retryBarrier

\* s is strictly descending
StrictlyDescending(s) == \A i \in 1..(Len(s) - 1) : s[i] > s[i + 1]

\* C12: the hot list and the feed list are strictly descending by pid in
\* every reachable state.
ListsAreDescending ==
    /\ StrictlyDescending(products)
    /\ Len(products) <= HotCount
    /\ StrictlyDescending(feedProducts)

\* C13: the initial fetch ends with loading cleared; after a failure the
\* error is set and the product list is empty, after a success the error is
\* null and the list is the first 8 sorted products; a failure changes no
\* feed state.
InitialFetchOutcome ==
    /\ [](productsFetch = "failed" =>
              /\ pendingHero.loading = FALSE
              /\ pendingHero.error = "Failed to load art."
              /\ pendingHero.products = <<>>
              /\ pendingHero = heroState => (~loading /\ heroSlides = 0))
    /\ [](productsFetch = "done" =>
              /\ pendingHero.loading = FALSE
              /\ pendingHero.error = "null"
              /\ pendingHero.products = FirstSorted(Min(HotCount, collectionSize))
              /\ pendingHero = heroState => (~loading /\ error = "null"))
    /\ [][(productsFetch = "inflight" /\ productsFetch' = "failed") =>
              UNCHANGED feedVars]_vars

\* C13 witness: the initial fetch failed and the failure is on screen
InitialFetchFailedShown ==
    /\ productsFetch = "failed"
    /\ ~loading
    /\ error = "Failed to load art."
    /\ products = <<>>

\* ceil(M / pageSize)
PagesOf(M) == (M + pageSize - 1) \div pageSize

\* C14: with every fetch succeeding and M >= 1, the paginator sends exactly
\* ceil(M / 12) requests: never more, and that many once exhaustion is
\* rendered and nothing is in flight; no request is sent for a page that
\* starts at or beyond the end of the collection.
ExactlyCeilRequests ==
    collectionSize >= 1 =>
        /\ feedCalls + Len(feedFetches) <= PagesOf(collectionSize)
        /\ (~feedHasMore /\ feedFetches = <<>>) =>
               feedCalls = PagesOf(collectionSize)
        /\ \A i \in DOMAIN feedFetches :
               feedFetches[i].page * pageSize < collectionSize

\* C18: when the transitioning flag is false (rendered and queued), no
\* scheduled index update is outstanding.
FlagCoversPendingUpdate ==
    (~isTransitioning /\ ~pendingHero.isTransitioning) => timeouts = <<>>

NoPreviewNoExtraction ==
    /\ [][(/\ ~HasPreview(products, currentIndex)
           /\ ~HasPreview(products', currentIndex')) =>
              /\ Len(extractions') <= Len(extractions)
              /\ effectDeps' # effectDeps => pendingColors' = pendingColors]_vars
    /\ [](\A i \in DOMAIN extractions : extractions[i] \in withImage)
    /\ [][pendingColors' # pendingColors =>
              Len(extractions') < Len(extractions)]_vars
    /\ [](pendingColors \in {Fallback} \cup {PaletteOf(p) : p \in withImage})

\* C16 witness: a product without preview image is displayed, nothing is in
\* flight, and the palette is still the one of an earlier slide's image
NoPreviewKeepsPalette ==
    /\ products # <<>>
    /\ pendingHero = heroState
    /\ currentIndex \in 0..(heroSlides - 1)
    /\ ~HasPreview(products, currentIndex)
    /\ extractions = <<>>
    /\ pendingColors = auroraColors
    /\ auroraColors # Fallback

\* C17: after the unmount no interval tick fires and no feed fetch is
\* started (the interval is cleared, nothing is queued for the observer);
\* a live interval is the one created for the rendered slide count, so
\* every tick is a tick of that interval.
TeardownCancels ==
    /\ [][~mounted =>
              /\ autoTicks' = autoTicks
              /\ Len(timeouts') <= Len(timeouts)
              /\ Len(feedFetches') <= Len(feedFetches)
              /\ lastFeedCall' # "started" \/ UNCHANGED lastFeedCall]_vars
    /\ [][autoTicks' # autoTicks =>
              /\ heroSlides > 1
              /\ timeouts'[Len(timeouts')].arg = heroSlides]_vars
    /\ [](timer # 0 => (mounted /\ timer = heroSlides))
    /\ [](~mounted => (timer = 0 /\ entries = <<>>))

\* C17 witness: unmounted after the interval has ticked, with the sentinel
\* in the viewport, more pages to load and no fetch in flight
TornDownWhileActive ==
    /\ ~mounted
    /\ heroSlides > 1
    /\ autoTicks >= 1
    /\ visible
    /\ feedHasMore
    /\ ~feedLoading
    /\ pendingFeed = feedState
    /\ feedFetches = <<>>

\* C19: with every fetch succeeding and the sentinel staying visible, the
\* feed ends with exactly the M products, hasMore false and loading false:
\* once exhaustion is rendered and nothing is in flight or queued, the
\* state no longer changes, and the feed list then has exactly M items.
FeedEndsComplete ==
    (/\ ~feedHasMore
     /\ ~feedLoading
     /\ pendingFeed = feedState
     /\ feedFetches = <<>>
     /\ entries = <<>>) => Len(feedProducts) = collectionSize

====
